---- MODULE Spec2Model ----
(***************************************************************************)
(* The SPY NAV backend (src/server.js, and its earlier revision            *)
(* src/unnamed/part_000) as a state machine.                               *)
(*                                                                         *)
(* One Node.js process serves every request on a single event loop: a      *)
(* handler runs without interruption from one await to the next.  An       *)
(* action below is one such run-to-completion segment of a handler:        *)
(*   NavRequest / PriceRequest   arrival up to the first axios.get         *)
(*   AxiosResolve                a response arrives; the handler goes on   *)
(*                               to the next axios.get or to its response  *)
(*   AxiosReject                 an attempt fails (transport, timeout,     *)
(*                               HTTP status); catch block of the retry    *)
(*   DelayElapsed                the setTimeout between attempts fires     *)
(*   HistoryRequest, ResetRequest  the synchronous history handlers        *)
(*                                                                         *)
(* Units: a price is an integer number of cents, a weight an integer       *)
(* number of thousandths, the running sum nav is in 1e-5 dollars and the   *)
(* final NAV in cents.  Arithmetic is exact.                               *)
(***************************************************************************)
EXTENDS Integers, Sequences, FiniteSets, TLC

VARIABLES apiKey,    \* API_KEY is set (process.env.FINNHUB_API_KEY)
          retries,   \* default of fetchWithRetry's retries parameter
          file,      \* history.json: [st, log]
          now,       \* the clock read by new Date()
          req,       \* the requests in flight: one record per request
          listed,    \* the last answer of GET /api/spy-history
          arrivals,  \* NAV and price requests received so far
          appended,  \* every sample written since the history was last empty
          \* what an observer of request 1 notes down (specification SpecWatch)
          total,     \* axios.get calls issued for the request
          h0,        \* the history on disk when the request arrived
          resetSeen  \* a reset succeeded while the request was in flight

vars == <<apiKey, retries, file, now, req, listed, arrivals, appended,
          total, h0, resetSeen>>

\* ---------------------------------------------------------------- bounds
\* NAV and price requests of one run.
MaxArrivals == 2

\* The requests the server has in flight at one time.
Reqs == {1, 2}

\* ------------------------------------------------------------- constants
DefaultRetries == 5
DefaultRetriesAlt == 3
HistoryCap == 100
NavScale == 10

\* WEIGHTS in insertion order (Object.entries), in thousandths.
Tickers == <<"AAPL", "MSFT", "AMZN", "GOOGL", "NVDA">>
WEIGHTS == <<65, 60, 33, 25, 40>>
NumTickers == Len(Tickers)

\* ------------------------------------------------------ JavaScript values
\* A value of data.c as the upstream JSON can carry it.
Num(v) == [t |-> "number", v |-> v]
Undefined == [t |-> "undefined", v |-> 0]
Null == [t |-> "null", v |-> 0]
Str == [t |-> "string", v |-> 0]     \* a non-empty, non-numeric string
NaN == [t |-> "NaN", v |-> 0]

\* !data.c
Falsy(c) == \/ c.t \in {"undefined", "null", "NaN"}
            \/ c.t = "number" /\ c.v = 0

\* data.c * weight
Times(c, w) == CASE c.t = "number" -> Num(c.v * w)
                 [] c.t = "null" -> Num(0)
                 [] OTHER -> NaN

\* a + b on numbers
Plus(a, b) == IF a.t = "number" /\ b.t = "number" THEN Num(a.v + b.v) ELSE NaN

Abs(x) == IF x < 0 THEN -x ELSE x
Sign(x) == IF x < 0 THEN -1 ELSE 1

\* FinalNav cutting the digits after the second decimal instead of rounding.
FinalNav_Truncate(nav) ==
  IF nav.t # "number" THEN NaN
  ELSE LET x == nav.v * NavScale
       IN  Num(Sign(x) * (Abs(x) \div 1000))

\* parseFloat((nav * 10).toFixed(2)): nav in 1e-5 dollars, result in cents.
\* toFixed rounds the magnitude to the nearest, a tie to the larger.
FinalNav(nav) ==
  IF nav.t # "number" THEN NaN
  ELSE LET x == nav.v * NavScale
       IN  Num(Sign(x) * ((Abs(x) + 500) \div 1000))

\* nav += data.c * weight
Accumulate(nav, c, w) == Plus(nav, Times(c, w))

\* The loop of the NAV handler over the first k entries of a weight table,
\* prices[j] being data.c of the j-th symbol, and the rounding after it.
RECURSIVE NavLoop(_, _, _)
NavLoop(weights, prices, k) ==
  IF k = 0 THEN Num(0)
  ELSE Accumulate(NavLoop(weights, prices, k - 1), prices[k], weights[k])

ComputeNav(weights, prices) == FinalNav(NavLoop(weights, prices, Len(weights)))

\* JSON.stringify of a number: NaN is written as null.
ToJson(n) == IF n.t = "number" THEN n ELSE Null

\* ---------------------------------------------------------- history file
Absent == [st |-> "absent", log |-> <<>>]
Corrupt == [st |-> "corrupt", log |-> <<>>]
Stored(h) == [st |-> "ok", log |-> h]

\* slice(-100) left out: the whole history is written back.
SliceLast_Whole(h) == h

\* slice(0, 100) for slice(-100): the first 100 are kept.
SliceLast_First(h) ==
  IF Len(h) <= HistoryCap THEN h ELSE SubSeq(h, 1, HistoryCap)

\* history.slice(-100)
SliceLast(h) ==
  IF Len(h) <= HistoryCap THEN h
  ELSE SubSeq(h, Len(h) - HistoryCap + 1, Len(h))

\* getHistory without its existsSync test: reading the absent file throws.
GetHistory_NoExistsTest(f) ==
  CASE f.st = "absent" -> [threw |-> TRUE, val |-> <<>>, err |-> "ENOENT"]
    [] f.st = "corrupt" -> [threw |-> TRUE, val |-> <<>>, err |-> "SyntaxError"]
    [] OTHER -> [threw |-> FALSE, val |-> f.log, err |-> ""]

\* getHistory catching the parse error of a corrupt file and answering [].
GetHistory_CorruptAsEmpty(f) ==
  CASE f.st = "ok" -> [threw |-> FALSE, val |-> f.log, err |-> ""]
    [] OTHER -> [threw |-> FALSE, val |-> <<>>, err |-> ""]

\* getHistory: [] when the file does not exist, else JSON.parse of it, which
\* throws on a file that is no JSON.
GetHistory(f) ==
  CASE f.st = "absent" -> [threw |-> FALSE, val |-> <<>>, err |-> ""]
    [] f.st = "corrupt" -> [threw |-> TRUE, val |-> <<>>, err |-> "SyntaxError"]
    [] OTHER -> [threw |-> FALSE, val |-> f.log, err |-> ""]

\* fs.writeFileSync(HISTORY_FILE, text): wr is the outcome of the write.
WriteFile(f, h, wr) ==
  IF wr = "ok" THEN [threw |-> FALSE, file |-> Stored(h), err |-> ""]
  ELSE [threw |-> TRUE, file |-> f, err |-> "EACCES"]

\* saveHistory writing the new entry alone, without the history read.
SaveHistory_Overwrite(f, entry, wr) ==
  LET got == GetHistory(f)
  IN  IF got.threw THEN [threw |-> TRUE, file |-> f, err |-> got.err]
      ELSE WriteFile(f, <<entry>>, wr)

\* saveHistory putting the new entry in front (unshift for push).
SaveHistory_Unshift(f, entry, wr) ==
  LET got == GetHistory(f)
  IN  IF got.threw THEN [threw |-> TRUE, file |-> f, err |-> got.err]
      ELSE WriteFile(f, SliceLast(<<entry>> \o got.val), wr)

\* saveHistory(entry)
SaveHistory(f, entry, wr) ==
  LET got == GetHistory(f)
  IN  IF got.threw THEN [threw |-> TRUE, file |-> f, err |-> got.err]
      ELSE WriteFile(f, SliceLast(Append(got.val, entry)), wr)

WriteOutcomes == {"ok", "fail"}

\* ---------------------------------------------------------------- requests
NoResp == [status |-> 0, error |-> "", details |-> "", val |-> Undefined]

Idle == [kind |-> "none", pc |-> "idle", sym |-> 0, i |-> 0, nav |-> Num(0),
         resp |-> NoResp,
         \* history of the request, kept for the properties
         seq |-> 0,          \* the request is the seq-th to arrive
         exhausted |-> FALSE, \* a fetchWithRetry of the request failed every attempt
         calls |-> 0,        \* axios.get calls of the current fetchWithRetry
         fails |-> 0,        \* failed attempts of the current fetchWithRetry
         lastErr |-> "",     \* error of the latest failed attempt
         thrown |-> "",      \* error fetchWithRetry threw
         quotes |-> <<>>,    \* data.c of the responses fetchWithRetry returned
         saved |-> FALSE,    \* saveHistory was called
         wrote |-> FALSE,    \* the history file was written by the request
         sample |-> 0]       \* time of the sample handed to saveHistory

\* The ticker of request q.
TickerOf(q) == IF q.kind = "price" THEN "SPY" ELSE Tickers[q.sym]

\* res.status(s).json(...)
Respond(q, s, error, details, val) ==
  [q EXCEPT !.pc = "done",
            !.resp = [status |-> s, error |-> error, details |-> details, val |-> val]]

\* axios.get(url, {timeout}) is issued: the request waits for it.
IssueGet(q) ==
  [q EXCEPT !.pc = "inflight", !.calls = @ + 1]

\* fetchWithRetry(url) is called: i = 0 and the first axios.get.
CallFetch(q) ==
  IssueGet([q EXCEPT !.i = 0, !.calls = 0, !.fails = 0])

\* The handlers without their test of the key.
KeyMissing_Unchecked == FALSE

\* if (!API_KEY)
KeyMissing == ~apiKey

\* The catch block of a handler logging the error without answering.
HandlerCatch_NoAnswer(q, message) ==
  [q EXCEPT !.pc = "caught"]

\* The catch block of a handler.
HandlerCatch(q, message) ==
  Respond(q, 500,
          IF q.kind = "nav" THEN "Failed to compute NAV" ELSE "Failed to fetch SPY price",
          message, Undefined)

\* FetchCatch with the last attempt tested as i === retries: the error of
\* the last attempt is not rethrown and the loop runs out.
FetchCatch_OffByOne(q, e) ==
  LET f == [q EXCEPT !.fails = @ + 1, !.lastErr = e]
  IN  IF f.i = retries
      THEN HandlerCatch([f EXCEPT !.thrown = e, !.exhausted = TRUE], e)
      ELSE [f EXCEPT !.pc = "sleeping"]

\* The catch block of fetchWithRetry for error e: rethrow on the last
\* attempt, which the handler catches; else wait for the delay.
FetchCatch(q, e) ==
  LET f == [q EXCEPT !.fails = @ + 1, !.lastErr = e]
  IN  IF f.i = retries - 1
      THEN HandlerCatch([f EXCEPT !.thrown = e, !.exhausted = TRUE], e)
      ELSE [f EXCEPT !.pc = "sleeping"]

\* if (!data.c) throw new Error(`Invalid price data for ${ticker}`)
InvalidPrice(c) == Falsy(c)

----
\* ------------------------------------------------------------------ Init
\* A history file as an earlier run of the server leaves it: n samples in the
\* order written.
OldLog(n) == [k \in 1..n |-> [time |-> k, nav |-> Num(100000)]]

InitFiles ==
  {Absent, Corrupt} \cup
  {Stored(OldLog(n)) : n \in {0, HistoryCap - 1}}

Init ==
  /\ apiKey \in BOOLEAN
  /\ retries \in {DefaultRetries, DefaultRetriesAlt}
  /\ file \in InitFiles
  /\ now = HistoryCap + 1
  /\ req = [r \in Reqs |-> Idle]
  /\ listed = [status |-> 0, threw |-> FALSE, val |-> <<>>]
  /\ arrivals = 0
  /\ appended = file.log
  /\ total = 0
  /\ h0 = <<>>
  /\ resetSeen = FALSE

\* --------------------------------------------------------------- actions
\* A request arrives and is given the record r: the first one never used,
\* else the first whose request was answered.
Free(r) == req[r].pc \in {"idle", "done"}
Arrives(r) ==
  /\ arrivals < MaxArrivals
  /\ Free(r)
  /\ \A p \in Reqs \ {r} :
       \/ ~Free(p)
       \/ req[r].pc = "idle" /\ (req[p].pc = "done" \/ r < p)
       \/ req[r].pc = "done" /\ req[p].pc = "done" /\ r < p

\* GET /api/spy-nav arrives.
NavRequest(r) ==
  /\ Arrives(r)
  /\ arrivals' = arrivals + 1
  /\ LET q == [Idle EXCEPT !.kind = "nav", !.seq = arrivals + 1, !.sym = 1, !.nav = Num(0)]
     IN  req' = [req EXCEPT ![r] =
                   IF KeyMissing
                   THEN Respond(q, 500, "API key missing", "", Undefined)
                   ELSE CallFetch(q)]
  /\ UNCHANGED <<apiKey, retries, file, now, listed, appended>>

\* GET /api/spy-price arrives.
PriceRequest(r) ==
  /\ Arrives(r)
  /\ arrivals' = arrivals + 1
  /\ LET q == [Idle EXCEPT !.kind = "price", !.seq = arrivals + 1]
     IN  req' = [req EXCEPT ![r] =
                   IF KeyMissing
                   THEN Respond(q, 500, "API key missing", "", Undefined)
                   ELSE CallFetch(q)]
  /\ UNCHANGED <<apiKey, retries, file, now, listed, appended>>

\* The rest of the NAV handler once the loop is over: finalNav, saveHistory,
\* the response; an exception of saveHistory is caught by the handler.
Sample(q) == [time |-> now, nav |-> ToJson(FinalNav(q.nav))]

\* NavFinish answering before it saves: the answer is 200 whatever becomes
\* of the append.
NavFinish_AnswerFirst(q, wr) ==
  LET sv == SaveHistory(file, Sample(q), wr)
      s == [q EXCEPT !.saved = TRUE, !.sample = now, !.wrote = ~sv.threw]
  IN  [file |-> sv.file,
       q |-> Respond(s, 200, "", "", ToJson(FinalNav(q.nav)))]

NavFinish(q, wr) ==
  LET sv == SaveHistory(file, Sample(q), wr)
      s == [q EXCEPT !.saved = TRUE, !.sample = now, !.wrote = ~sv.threw]
  IN  [file |-> sv.file,
       q |-> IF sv.threw THEN HandlerCatch(s, sv.err)
             ELSE Respond(s, 200, "", "", ToJson(FinalNav(q.nav)))]

\* AfterFetch with the price handler saving its price like the NAV handler.
AfterFetch_PriceSaves(q, c, wr) ==
  LET g == [q EXCEPT !.quotes = Append(@, c)]
  IN  IF InvalidPrice(c)
      THEN [file |-> file,
            q |-> HandlerCatch(g, "Invalid price data for " \o TickerOf(g))]
      ELSE IF g.kind = "price"
      THEN LET sv == SaveHistory(file, [time |-> now, nav |-> ToJson(c)], wr)
           IN  [file |-> sv.file, q |-> Respond(g, 200, "", "", c)]
      ELSE LET a == [g EXCEPT !.nav = Accumulate(@, c, WEIGHTS[g.sym])]
           IN  IF a.sym < NumTickers
               THEN [file |-> file, q |-> CallFetch([a EXCEPT !.sym = @ + 1])]
               ELSE NavFinish(a, wr)

\* The handler after fetchWithRetry returned a response with data.c = c.
AfterFetch(q, c, wr) ==
  LET g == [q EXCEPT !.quotes = Append(@, c)]
  IN  IF InvalidPrice(c)
      THEN [file |-> file,
            q |-> HandlerCatch(g, "Invalid price data for " \o TickerOf(g))]
      ELSE IF g.kind = "price"
      THEN [file |-> file, q |-> Respond(g, 200, "", "", c)]
      ELSE LET a == [g EXCEPT !.nav = Accumulate(@, c, WEIGHTS[g.sym])]
           IN  IF a.sym < NumTickers
               THEN [file |-> file, q |-> CallFetch([a EXCEPT !.sym = @ + 1])]
               ELSE NavFinish(a, wr)

\* axios.get resolves with a response whose data.c is c.
AxiosResolve(r, c, wr) ==
  /\ req[r].pc = "inflight"
  /\ LET out == AfterFetch(req[r], c, wr)
     IN  /\ req' = [req EXCEPT ![r] = out.q]
         /\ file' = out.file
         /\ now' = IF out.q.saved THEN now + 1 ELSE now
         /\ appended' = IF out.q.wrote THEN Append(appended, Sample(out.q))
                         ELSE appended
  /\ UNCHANGED <<apiKey, retries, listed, arrivals>>

\* AfterReject with the try/catch around each symbol instead of around the
\* loop: a symbol whose fetch failed every attempt is skipped.
AfterReject_SkipSymbol(q, e) ==
  IF q.kind = "nav" /\ q.i = retries - 1
  THEN LET g == [q EXCEPT !.fails = @ + 1, !.lastErr = e, !.thrown = e,
                          !.exhausted = TRUE]
       IN  IF g.sym < NumTickers
           THEN [file |-> file, q |-> CallFetch([g EXCEPT !.sym = @ + 1])]
           ELSE NavFinish(g, "ok")
  ELSE [file |-> file, q |-> FetchCatch(q, e)]

\* The handler after axios.get rejected with e: the catch block of
\* fetchWithRetry, whose rethrow ends the handler in its own catch block.
AfterReject(q, e) == [file |-> file, q |-> FetchCatch(q, e)]

\* axios.get rejects with error e.
AxiosReject(r, e) ==
  /\ req[r].pc = "inflight"
  /\ LET out == AfterReject(req[r], e)
     IN  /\ req' = [req EXCEPT ![r] = out.q]
         /\ file' = out.file
         /\ now' = IF out.q.saved THEN now + 1 ELSE now
         /\ appended' = IF out.q.wrote THEN Append(appended, Sample(out.q))
                         ELSE appended
  /\ UNCHANGED <<apiKey, retries, listed, arrivals>>

\* The delay between two attempts is over: i++, and the next axios.get while
\* i < retries.  Past the loop fetchWithRetry returns undefined, which the
\* handler's destructuring throws on.
DelayElapsed(r) ==
  /\ req[r].pc = "sleeping"
  /\ LET q == [req[r] EXCEPT !.i = @ + 1]
     IN  req' = [req EXCEPT ![r] =
                   IF q.i < retries THEN IssueGet(q)
                   ELSE HandlerCatch(q, "TypeError")]
  /\ UNCHANGED <<apiKey, retries, file, now, listed, arrivals, appended>>

\* GET /api/spy-history: an exception of getHistory is answered 500.
HistoryRequest ==
  /\ LET got == GetHistory(file)
     IN  listed' = [status |-> IF got.threw THEN 500 ELSE 200,
                    threw |-> got.threw, val |-> got.val]
  /\ UNCHANGED <<apiKey, retries, file, now, req, arrivals, appended>>

\* The DELETE handler also ending the requests that wait for a fetch.
ResetRequest_Aborts(wr) ==
  /\ LET w == WriteFile(file, <<>>, wr)
     IN  /\ file' = w.file
         /\ appended' = IF w.threw THEN appended ELSE <<>>
  /\ req' = [r \in Reqs |->
               IF req[r].pc \in {"inflight", "sleeping"}
               THEN Respond(req[r], 500, "History reset", "", Undefined)
               ELSE req[r]]
  /\ UNCHANGED <<apiKey, retries, now, listed, arrivals>>

\* DELETE /api/spy-history
ResetRequest(wr) ==
  /\ LET w == WriteFile(file, <<>>, wr)
     IN  /\ file' = w.file
         /\ appended' = IF w.threw THEN appended ELSE <<>>
  /\ UNCHANGED <<apiKey, retries, now, req, listed, arrivals>>

----
\* -------------------------------------------------------- specifications
\* Inputs of the concurrent runs.
Quotes == {Num(15000), Num(0)}
Errors == {"ETIMEDOUT"}

\* Nobody observes.
Unwatched == UNCHANGED <<total, h0, resetSeen>>

Next ==
  \/ \E r \in Reqs : NavRequest(r) /\ Unwatched
  \/ \E r \in Reqs : PriceRequest(r) /\ Unwatched
  \/ \E r \in Reqs, c \in Quotes, wr \in WriteOutcomes :
       AxiosResolve(r, c, wr) /\ Unwatched
  \/ \E r \in Reqs, e \in Errors : AxiosReject(r, e) /\ Unwatched
  \/ \E r \in Reqs : DelayElapsed(r) /\ Unwatched
  \/ HistoryRequest /\ Unwatched
  \/ \E wr \in WriteOutcomes : ResetRequest(wr) /\ Unwatched

Spec == Init /\ [][Next]_vars

\* One request at a time, over every shape of data.c and two errors.
QuotesOne == {Num(15001), Num(20050), Num(-15001), Num(0), Null, Str}
ErrorsOne == {"ETIMEDOUT", "ECONNRESET"}

NextOne ==
  \/ arrivals = 0 /\ NavRequest(1) /\ Unwatched
  \/ arrivals = 0 /\ PriceRequest(1) /\ Unwatched
  \/ \E c \in QuotesOne, wr \in WriteOutcomes : AxiosResolve(1, c, wr) /\ Unwatched
  \/ \E e \in ErrorsOne : AxiosReject(1, e) /\ Unwatched
  \/ DelayElapsed(1) /\ Unwatched
  \/ HistoryRequest /\ Unwatched
  \/ \E wr \in WriteOutcomes : ResetRequest(wr) /\ Unwatched

SpecOne == Init /\ [][NextOne]_vars

\* One request, with the inputs of Spec, and an observer who counts its
\* axios.get calls, keeps the history it found on arrival and notes a reset
\* that succeeds (reset) while it is in flight.
InFlight(r) == req[r].pc \in {"inflight", "sleeping"}

Watch(reset) ==
  /\ total' = total + IF req'[1] # req[1] /\ req'[1].pc = "inflight" THEN 1 ELSE 0
  /\ h0' = IF req[1].pc = "idle" /\ req'[1].pc # "idle"
           THEN GetHistory(file).val ELSE h0
  /\ resetSeen' = (resetSeen \/ (reset /\ InFlight(1)))

NextWatch ==
  \/ arrivals = 0 /\ NavRequest(1) /\ Watch(FALSE)
  \/ arrivals = 0 /\ PriceRequest(1) /\ Watch(FALSE)
  \/ \E c \in Quotes, wr \in WriteOutcomes : AxiosResolve(1, c, wr) /\ Watch(FALSE)
  \/ \E e \in Errors : AxiosReject(1, e) /\ Watch(FALSE)
  \/ DelayElapsed(1) /\ Watch(FALSE)
  \/ HistoryRequest /\ Watch(FALSE)
  \/ \E wr \in WriteOutcomes : ResetRequest(wr) /\ Watch(wr = "ok")

SpecWatch == Init /\ [][NextWatch]_vars

\* The axios.get of the request settles: a response or an error.
Settles ==
  \/ \E c \in Quotes, wr \in WriteOutcomes : AxiosResolve(1, c, wr) /\ Watch(FALSE)
  \/ \E e \in Errors : AxiosReject(1, e) /\ Watch(FALSE)

\* axios.get settles within its timeout and the timer of the delay fires:
\* a request that waits for either is taken up again.
SpecLive ==
  /\ SpecWatch
  /\ WF_vars(Settles)
  /\ WF_vars(DelayElapsed(1) /\ Watch(FALSE))

----
\* ------------------------------------------------------------ properties
NavReqs == {r \in Reqs : req[r].kind = "nav"}
Done(r) == req[r].pc = "done"
Success(r) == Done(r) /\ req[r].resp.status = 200
Failure(r) == Done(r) /\ req[r].resp.status = 500

\* The step is one of request r.
StepOf(r) == req'[r] # req[r]

\* C1: a NAV request one of whose symbols failed every attempt of its fetch
\* is answered 500 at once and saveHistory is never called for it; the steps
\* of such a request leave the history file as it was.
C1_ExhaustedFailsWithoutAppend ==
  /\ [](\A r \in NavReqs :
          req[r].exhausted =>
            /\ Failure(r)
            /\ req[r].resp.error = "Failed to compute NAV"
            /\ ~req[r].saved /\ ~req[r].wrote)
  /\ [][\A r \in Reqs :
          StepOf(r) /\ req'[r].kind = "nav" /\ req'[r].exhausted =>
            file' = file /\ appended' = appended]_vars

\* C1 witness: the second symbol's fetch failed every attempt, the request
\* was answered 500, with a history on disk.
C1_Witness ==
  \E r \in NavReqs :
    /\ req[r].exhausted /\ req[r].sym = 2 /\ Failure(r)
    /\ req[r].fails = retries
    /\ file.st = "ok" /\ Len(file.log) > 0

\* C2: fetchWithRetry makes its attempts one after the other; the first
\* attempt that succeeds, the k-th, ends the call after exactly k attempts,
\* k <= retries, and the handler goes on with that response; when retries
\* attempts have failed the call has made exactly retries attempts and the
\* error of the last one is what the handler reports.
C2_AttemptsAndLastError ==
  /\ [](\A r \in Reqs :
          LET q == req[r] IN
          /\ q.calls <= retries
          /\ q.pc = "inflight" => q.calls = q.fails + 1 /\ q.calls = q.i + 1
          /\ q.pc = "sleeping" => q.calls = q.fails /\ q.fails < retries
          /\ q.fails >= retries =>
                /\ q.calls = retries
                /\ Failure(r)
                /\ q.thrown = q.lastErr
                /\ q.resp.details = q.lastErr)
  /\ [][\A r \in Reqs :
          req[r].pc = "inflight" /\ Len(req'[r].quotes) = Len(req[r].quotes) + 1 =>
            /\ req[r].calls = req[r].fails + 1
            /\ req[r].calls <= retries
            /\ \/ Done(r)'
               \/ req'[r].pc = "inflight" /\ req'[r].sym = req[r].sym + 1
                    /\ req'[r].calls = 1 /\ req'[r].fails = 0]_vars

\* C2 witness: after a first symbol was fetched, the fetch of the next one
\* failed every attempt, the last one with ECONNRESET, which is reported.
C2_Witness ==
  \E r \in NavReqs :
    /\ req[r].sym = 2 /\ req[r].fails = retries /\ req[r].calls = retries
    /\ req[r].lastErr = "ECONNRESET" /\ req[r].resp.details = "ECONNRESET"

\* The sample of request r is in the sequence h of samples.
SampleIn(r, h) == \E k \in DOMAIN h : h[k].time = req[r].sample
Persisted(r) == file.st = "ok" /\ SampleIn(r, file.log)

\* The last n elements of h, all of h when it has fewer.
LastN(h, n) ==
  LET m == IF Len(h) < n THEN Len(h) ELSE n
  IN  [k \in 1..m |-> h[Len(h) - m + k]]

\* The sample of r was written after the last reset and fewer than 100
\* samples were written after it.
Retained(r) == SampleIn(r, LastN(appended, HistoryCap))

\* Request a arrived before b and wrote its sample after b: the two were in
\* flight together.
Overtook(a, b) ==
  /\ req[a].seq < req[b].seq
  /\ req[a].wrote /\ req[b].wrote
  /\ req[a].sample > req[b].sample

\* C3 as stated: of two NAV requests in flight together that both answered
\* success, with no reset since, the history holds the sample of only one.
C3_LostUpdate ==
  \A a \in NavReqs, b \in NavReqs :
    Overtook(a, b) /\ Success(a) /\ Success(b) /\ Retained(a) /\ Retained(b) =>
      ~(Persisted(a) /\ Persisted(b))

\* C3 amended: a request's append is one uninterrupted read-modify-write,
\* the log it writes being the log on disk at that moment with its sample
\* added (cut to the last 100); so the samples of two NAV requests that both
\* answered success are both in the history until a reset or 100 later
\* appends remove them.
C3_NoLostUpdate ==
  /\ [](\A a \in NavReqs, b \in NavReqs :
          a # b /\ Success(a) /\ Success(b) /\ Retained(a) /\ Retained(b) =>
            Persisted(a) /\ Persisted(b))
  /\ [][\A r \in Reqs :
          req'[r].wrote /\ ~req[r].wrote =>
            /\ file.st # "corrupt"
            /\ file' = Stored(SliceLast(Append(
                          GetHistory(file).val,
                          [time |-> req'[r].sample, nav |-> req'[r].resp.val])))]_vars

\* C3 witness: two NAV requests in flight together both answered success
\* and both samples are in the history.
C3_Witness ==
  \E a \in NavReqs, b \in NavReqs :
    /\ Overtook(a, b) /\ Success(a) /\ Success(b)
    /\ Persisted(a) /\ Persisted(b)
    /\ Len(file.log) = HistoryCap

\* C4 as stated: a NAV request whose saveHistory failed, the NAV being
\* computed, still answers 200 with that NAV.
C4_AppendFailureStillSuccess ==
  \A r \in NavReqs :
    Done(r) /\ req[r].saved /\ ~req[r].wrote =>
      /\ req[r].resp.status = 200
      /\ req[r].resp.val = ToJson(FinalNav(req[r].nav))

\* C5: the history on disk holds at most 100 samples, in the order of their
\* times, the oldest first.
C5_BoundedAndOrdered ==
  file.st = "ok" =>
    /\ Len(file.log) <= HistoryCap
    /\ \A k \in 1..(Len(file.log) - 1) : file.log[k].time <= file.log[k + 1].time

\* C5 witness: a full history after an append evicted a sample.
C5_Witness ==
  /\ file.st = "ok" /\ Len(file.log) = HistoryCap
  /\ Len(appended) > HistoryCap
  /\ \E r \in NavReqs : Success(r) /\ file.log[HistoryCap].time = req[r].sample

\* C6: what a history read returns is the last 100 of the samples appended
\* since the history was empty, in the order they were appended.
C6_KeepsLastHundred ==
  file.st # "corrupt" => GetHistory(file).val = LastN(appended, HistoryCap)

\* C6 witness: 101 samples were appended and the history read returned the
\* last 100 of them, the first one gone.
C6_Witness ==
  /\ Len(appended) = HistoryCap + 1
  /\ listed.status = 200 /\ Len(listed.val) = HistoryCap
  /\ listed.val = file.log
  /\ listed.val[1] = appended[2] /\ listed.val[HistoryCap] = appended[HistoryCap + 1]

\* A price the data model accepts: a number above zero.
Usable(c) == c.t = "number" /\ c.v > 0

\* C7 as stated: a request failed for a response without a usable price
\* has used up the attempts of that symbol's fetch.
C7_InvalidPriceIsRetried ==
  \A r \in Reqs :
    Done(r) /\ req[r].quotes # <<>> /\ ~Usable(req[r].quotes[Len(req[r].quotes)]) =>
      req[r].calls = retries

\* C8 as stated: a NAV request that got a price that is no number above
\* zero fails, and no sample is appended for it.
C8_InvalidQuoteFails ==
  \A r \in NavReqs :
    Done(r) /\ (\E k \in DOMAIN req[r].quotes : ~Usable(req[r].quotes[k])) =>
      /\ req[r].resp.status = 500
      /\ ~req[r].saved

\* The orders in which the symbols can be taken.
Orders ==
  {p \in [1..NumTickers -> 1..NumTickers] :
     \A a \in 1..NumTickers, b \in 1..NumTickers : p[a] = p[b] => a = b}

\* The sum of price * weight over the first k symbols of order p, prices in
\* cents and weights in thousandths.
RECURSIVE WeightedSum(_, _, _)
WeightedSum(p, prices, k) ==
  IF k = 0 THEN 0
  ELSE WeightedSum(p, prices, k - 1) + prices[p[k]].v * WEIGHTS[p[k]]

\* round(10 * x, 2 decimals) in cents, for x >= 0 in 1e-5: the cents value
\* nearest to 10 * x, the larger of two equally near.
Round2(x) ==
  CHOOSE n \in ((10 * x) \div 1000)..((10 * x) \div 1000 + 1) :
    n * 1000 - 500 <= 10 * x /\ 10 * x < n * 1000 + 500

\* Every symbol of request r was fetched, with a price above zero.
AllFetched(r) ==
  /\ Len(req[r].quotes) = NumTickers
  /\ \A k \in 1..NumTickers : Usable(req[r].quotes[k])

\* C9: when every symbol was fetched, the NAV answered is
\* round(10 * sum of price * weight, 2) with the sum taken in any order of the
\* symbols, the sample written with the answer carries that same NAV, and a
\* request that does not answer it is one whose saveHistory threw; the
\* table {A: 0.5, B: 0.5} with prices 100 and 200 gives 1500.00.
C9_NavIsRoundedWeightedSum ==
  /\ [](\A r \in NavReqs :
          AllFetched(r) =>
            /\ Done(r) /\ req[r].saved
            /\ Success(r) <=> req[r].wrote
            /\ Success(r) =>
                  \A p \in Orders :
                    req[r].resp.val = Num(Round2(WeightedSum(p, req[r].quotes, NumTickers))))
  /\ [][\A r \in Reqs :
          req'[r].wrote /\ ~req[r].wrote /\ AllFetched(r)' =>
            /\ file'.st = "ok"
            /\ file'.log[Len(file'.log)] =
                 [time |-> now,
                  nav |-> Num(Round2(WeightedSum([k \in 1..NumTickers |-> k],
                                                 req'[r].quotes, NumTickers)))]]_vars
  /\ ComputeNav(<<500, 500>>, <<Num(10000), Num(20000)>>) = Num(150000)

\* C9 witness: a NAV answered from two different prices whose sum is
\* rounded up to the next cent.
C9_Witness ==
  \E r \in NavReqs :
    /\ AllFetched(r) /\ Success(r) /\ Persisted(r)
    /\ req[r].quotes[1] # req[r].quotes[2]
    /\ (req[r].nav.v * NavScale) % 1000 >= 500

\* C10: without the API key a NAV or price request is answered 500 "API key
\* missing" on arrival, no axios.get is ever issued for it and saveHistory
\* is not called; the steps of the requests leave the history file as it was.
C10_NoKeyFailsFast ==
  /\ [](~apiKey =>
          \A r \in Reqs :
            req[r].kind # "none" =>
              /\ Failure(r)
              /\ req[r].resp.error = "API key missing"
              /\ req[r].calls = 0 /\ req[r].quotes = <<>>
              /\ ~req[r].saved /\ ~req[r].wrote)
  /\ [][~apiKey /\ (\E r \in Reqs : StepOf(r)) =>
          file' = file /\ appended' = appended]_vars

\* C10 witness: without the key a NAV request and a price request were both
\* answered 500, with a history on disk.
C10_Witness ==
  /\ ~apiKey
  /\ \E a \in Reqs, b \in Reqs :
       /\ req[a].kind = "nav" /\ req[b].kind = "price"
       /\ Failure(a) /\ Failure(b)
  /\ file.st = "ok" /\ Len(file.log) = HistoryCap - 1

\* The answer of a history read that found no sample.
EmptyAnswer == [status |-> 200, threw |-> FALSE, val |-> <<>>]

\* C11: a history read that finds no file answers 200 with the empty
\* sequence; a reset that succeeds leaves the empty history on disk whatever
\* was there before (a history, a corrupt file, no file), and a history read
\* that finds it answers 200 with the empty sequence.
C11_AbsentAndResetReadEmpty ==
  /\ [][listed' # listed /\ file.st = "absent" => listed' = EmptyAnswer]_vars
  /\ [][file' # file /\ req' = req => file' = Stored(<<>>) /\ appended' = <<>>]_vars
  /\ [][listed' # listed /\ file = Stored(<<>>) => listed' = EmptyAnswer]_vars
  /\ [](file.st = "absent" \/ file = Stored(<<>>) =>
          ~GetHistory(file).threw /\ GetHistory(file).val = <<>>)

\* C11 witness: a history read answered the empty sequence after a reset
\* removed a history that a NAV request had appended to.
C11_Witness ==
  /\ listed = EmptyAnswer
  /\ file = Stored(<<>>)
  /\ \E r \in NavReqs : Success(r) /\ req[r].wrote

\* C12: the history read after an append that succeeded ends with the
\* sample appended, and before it holds the history as it was before the
\* append, without its oldest sample when that history was full: the write
\* step of a request leaves exactly that on disk, and a history read
\* answers what is on disk.
C12_AppendReadRoundTrip ==
  /\ [][\A r \in Reqs :
          req'[r].wrote /\ ~req[r].wrote =>
            LET old == GetHistory(file).val
                new == GetHistory(file')
                n == Len(new.val)
            IN  /\ ~new.threw /\ n >= 1
                /\ new.val[n] = [time |-> req'[r].sample, nav |-> req'[r].resp.val]
                /\ SubSeq(new.val, 1, n - 1) =
                     IF Len(old) >= HistoryCap THEN Tail(old) ELSE old]_vars
  /\ [][listed' # listed =>
          /\ listed'.threw = (file.st = "corrupt")
          /\ listed'.val = IF file.st = "ok" THEN file.log ELSE <<>>]_vars

\* C12 witness: a history read after the append of a request to a full
\* history: 100 samples, the last one the request's, the oldest gone.
C12_Witness ==
  \E r \in NavReqs :
    /\ Success(r) /\ req[r].wrote
    /\ listed.status = 200 /\ Len(listed.val) = HistoryCap
    /\ listed.val[HistoryCap] = [time |-> req[r].sample, nav |-> req[r].resp.val]
    /\ Len(appended) = HistoryCap + 1
    /\ listed.val[1] = appended[2]

\* C13: while the history file is corrupt a history read answers 500 and
\* never a sequence, and no step of a request writes the file: the append of
\* a NAV request throws on the read and leaves the corrupt file in place.
\* Only the absent file reads as the empty sequence.
C13_CorruptIsNotEmpty ==
  /\ [][listed' # listed /\ file.st = "corrupt" =>
          listed'.threw /\ listed'.status = 500]_vars
  /\ [][\A r \in Reqs :
          StepOf(r) /\ file.st = "corrupt" =>
            /\ file' = file
            /\ ~req'[r].wrote
            /\ req'[r].saved => Failure(r)' /\ req'[r].resp.details = "SyntaxError"]_vars
  /\ [][listed' # listed /\ listed' = EmptyAnswer => file.st # "corrupt"]_vars

\* C13 witness: on a corrupt file a NAV request with five prices failed in
\* its append and a history read answered 500; the file is still corrupt.
C13_Witness ==
  /\ file.st = "corrupt"
  /\ listed.threw /\ listed.status = 500
  /\ \E r \in NavReqs :
       /\ req[r].saved /\ ~req[r].wrote /\ Failure(r)
       /\ req[r].resp.details = "SyntaxError"

\* C14: no step of a price request changes the history file, whatever the
\* request's outcome (price answered, invalid price, attempts used up, key
\* missing), and neither does a history read, whatever it answers.
C14_PriceAndReadLeaveHistory ==
  /\ [][\A r \in Reqs :
          StepOf(r) /\ req'[r].kind = "price" => file' = file]_vars
  /\ [][listed' # listed => file' = file]_vars
  /\ [](\A r \in Reqs : req[r].kind = "price" => ~req[r].saved /\ ~req[r].wrote)

\* C14 witness: with a history on disk that a history read has answered,
\* one price request was answered its price and another failed.
C14_Witness ==
  /\ file.st = "ok" /\ Len(file.log) = HistoryCap - 1
  /\ listed.status = 200 /\ listed.val = file.log
  /\ \E a \in Reqs, b \in Reqs :
       /\ req[a].kind = "price" /\ Success(a)
       /\ req[b].kind = "price" /\ Failure(b) /\ req[b].fails = retries

\* C15: when every axios.get settles and every delay ends, a NAV request is
\* answered; it is answered once, nothing of it changing after the answer;
\* the axios.get calls made for it number at most NumTickers * retries; and
\* when the last attempt allowed for a symbol has failed the request is
\* answered in that step, with no delay and no further axios.get.
C15_NavTerminates ==
  /\ (req[1].kind = "nav") ~> Done(1)
  /\ [][Done(1) => req'[1] = req[1] /\ total' = total]_vars
  /\ [](req[1].kind = "nav" => total <= NumTickers * retries)
  /\ [](req[1].kind = "nav" /\ req[1].fails >= retries =>
          Done(1) /\ req[1].calls = retries)
  /\ [][req[1].kind = "nav" /\ req'[1].fails = retries /\ req[1].fails < retries =>
          Done(1)' /\ total' = total]_vars

\* C15 witness: a NAV request answered after NumTickers * retries calls of
\* axios.get, the last symbol's price coming with the last attempt allowed.
C15_Witness ==
  /\ req[1].kind = "nav" /\ Success(1)
  /\ total = NumTickers * retries
  /\ req[1].calls = retries

\* C16 as stated: a NAV request works on its symbols in the order of the
\* table, one at a time, and a symbol is taken up only when every symbol
\* before it has yielded a valid price, a number above zero; after a price
\* that is not one, no later symbol is taken up.
C16_NextSymbolAfterValidPrice ==
  \A r \in NavReqs :
    /\ req[r].sym \in 1..NumTickers
    /\ TickerOf(req[r]) = Tickers[req[r].sym]
    /\ Len(req[r].quotes) \in {req[r].sym - 1, req[r].sym}
    /\ \A k \in DOMAIN req[r].quotes : k < req[r].sym => Usable(req[r].quotes[k])

\* Sample of request a stands before that of b in the history on disk.
Before(a, b) ==
  \E i \in DOMAIN file.log, j \in DOMAIN file.log :
    /\ i < j
    /\ file.log[i].time = req[a].sample
    /\ file.log[j].time = req[b].sample

\* C17: a NAV request answers 200 only in the step in which its sample,
\* carrying the value answered, was written as the last element of the
\* history; and the samples of two NAV requests stand in the history in the
\* order in which the requests finished, whichever arrived first.
C17_PersistBeforeRespond ==
  /\ [](\A r \in NavReqs : Success(r) => req[r].saved /\ req[r].wrote)
  /\ [][\A r \in Reqs :
          req'[r].kind = "nav" /\ Success(r)' /\ ~Done(r) =>
            /\ file'.st = "ok" /\ Len(file'.log) >= 1
            /\ file'.log[Len(file'.log)] =
                 [time |-> req'[r].sample, nav |-> req'[r].resp.val]]_vars
  /\ [](\A a \in NavReqs, b \in NavReqs :
          /\ req[a].wrote /\ req[b].wrote
          /\ Persisted(a) /\ Persisted(b)
          /\ req[a].sample < req[b].sample
          => Before(a, b) /\ ~Before(b, a))

\* C17 witness: of two NAV requests answered 200 the one that arrived first
\* finished last, and its sample stands last in the history.
C17_Witness ==
  \E a \in NavReqs, b \in NavReqs :
    /\ req[a].seq < req[b].seq
    /\ Success(a) /\ Success(b)
    /\ req[b].sample < req[a].sample
    /\ file.st = "ok" /\ Len(file.log) = 2
    /\ file.log[1] = [time |-> req[b].sample, nav |-> req[b].resp.val]
    /\ file.log[2] = [time |-> req[a].sample, nav |-> req[a].resp.val]

\* The sample request r wrote.
SampleOf(r) == [time |-> req[r].sample, nav |-> req[r].resp.val]

\* C18: a reset leaves the requests as they are, those waiting for a fetch
\* go on; when a reset succeeded while a NAV request was in flight, the file
\* is a readable history from then on that holds no sample of the history
\* the request found on arrival, and once the request is answered it is
\* either empty or the request's sample alone.
C18_ResetDuringNavRequest ==
  /\ [][file' = Stored(<<>>) /\ file' # file => req' = req]_vars
  /\ [][resetSeen' /\ ~resetSeen => req' = req /\ file' = Stored(<<>>)]_vars
  /\ [](resetSeen =>
          /\ file.st = "ok"
          /\ \A k \in DOMAIN file.log, j \in DOMAIN h0 : file.log[k] # h0[j])
  /\ [](req[1].kind = "nav" /\ Done(1) /\ resetSeen =>
          \/ file = Stored(<<>>)
          \/ req[1].wrote /\ Success(1) /\ file = Stored(<<SampleOf(1)>>))

\* C18 witness: a NAV request arrived on a history of 99 samples, a reset
\* succeeded while it was fetching, and the request went on to answer 200:
\* the history is its sample alone.
C18_Witness ==
  /\ req[1].kind = "nav" /\ Success(1)
  /\ Len(h0) = HistoryCap - 1
  /\ resetSeen
  /\ file = Stored(<<SampleOf(1)>>)

====
